---- MODULE Spec2Model ----
(***************************************************************************)
(* Mindstream page controller (pages/index.tsx, first Home component) and  *)
(* the SummaryCard widget (components/SummaryCard.tsx, first variant).     *)
(*                                                                         *)
(* Two state machines are modelled:                                        *)
(*   - the voice capture session: startRecording / stopRecording and the   *)
(*     recognizer callbacks onresult / onerror / onend;                    *)
(*   - the generated-summary lifecycle: generate24hSummary, the            *)
(*     SummaryCard's handleSave / handleDiscard, saveRatedSummary.         *)
(*                                                                         *)
(* Every await of an async function is a point where other handlers may    *)
(* run, so each async function is split into one action per await, with a  *)
(* program counter (genPc, savePc) and its captured locals as variables.   *)
(*                                                                         *)
(* Not modelled: markup, the header fade, highlight and scroll timers,      *)
(* expandedSummaryId / recentlyAddedId, exports.                           *)
(*                                                                         *)
(* Strings the user or the recognizer produces are sequences of            *)
(* characters; fixed messages are TLA+ strings.  A draft text is the       *)
(* ordinal of the generation that produced it (0 is null / empty text).    *)
(***************************************************************************)
EXTENDS Integers, Sequences, FiniteSets, TLC

(* ------------------------------ bounds --------------------------------- *)
MaxTicks == 2
MaxText == 3
MaxGen == 2
MaxRows == 2
MaxCalls == 2
MaxEntries == 2
MaxVoiceSaves == 1
MaxInstances == 3
MaxTimers == 2
MaxDay == 3
StartWrap == 2

(* ------------------------- program constants --------------------------- *)
DebounceMs == 1000
DayMs == 24 * 60 * 60 * 1000
TickMs == DebounceMs
Stars == 1..5
NoDraft == 0

VARIABLES
  now,               \* Date.now()
  recogAvailable,    \* recogRef.current is not null
  recState,          \* platform recognizer: inactive / active / stopping / errored
  startCalls,        \* invocations of the recognizer's start primitive (mod StartWrap)
  holdingRef,
  lastStartTimeRef,
  isRecording,
  interim,
  finalText,
  finals,            \* history: final fragments delivered since another writer set finalText
  draftAtPress,      \* history: the input's text at the press of the record button
  status,
  toast,
  signedIn,          \* supabase.auth.getUser() yields a user id
  generatedSummary,
  generatedAt,
  isGenerating,
  isSavingRating,
  hoverRating,
  selectedRating,    \* SummaryCard state (0 is null)
  localSaving,       \* SummaryCard state
  genPc,             \* generate24hSummary: idle / query / fetch
  genSince,          \* generate24hSummary's local `since`
  genFrom,           \* history: the draft previewed when generate24hSummary was called
  genCount,          \* summarizer replies received so far
  draftRange,        \* history: range of the entries query behind the draft
  savePc,            \* saveRatedSummary: idle / auth / insert / refetch / stats / streak
  saveText,          \* generatedSummary captured by the running saveRatedSummary
  saveRating,        \* its `rating` argument
  saveRow,           \* the row of the insert request in flight
  summariesTable,    \* rows of the summaries table
  summaries,         \* the page's local list (summary_text of each row)
  discarded,         \* history: drafts the user discarded
  entryCalls,        \* the saveTextEntry invocations in flight
  entriesTable,      \* rows of the entries table, oldest first
  entries,           \* the page's local list of entry rows, newest first
  entrySeq,          \* ids the entries table has handed out so far
  confirmTarget,     \* what the open confirm modal would delete (kind "none": closed)
  deleteCalls,       \* the confirmed delete actions in flight
  ms_entry_input_rendered,  \* window.__ms_entry_input_rendered__
  instPc,            \* each EntryInput instance: unmounted / rendered / mounted
  skipRef,           \* each instance's skipRef.current
  shown,             \* each instance: its last render returned the input UI
  restartTimers,     \* second Home: the armed restart timers (TRUE: stopRecording ran since)
  voiceCalls,        \* second Home: the saveTextEntry(text, 'voice') invocations in flight
  statsRow,          \* the user's row of the user_stats table
  statsCalls         \* the invocations of the user-stats handler in flight

captureVars == <<recogAvailable, recState, startCalls, holdingRef,
                 lastStartTimeRef, isRecording, interim, finalText,
                 finals, draftAtPress>>
summaryVars == <<signedIn, generatedSummary, generatedAt, isGenerating,
                 isSavingRating, hoverRating, selectedRating, localSaving,
                 genPc, genSince, genFrom, genCount, draftRange, savePc, saveText,
                 saveRating, saveRow, summariesTable, summaries, discarded>>
deleteVars == <<confirmTarget, deleteCalls>>
entryVars == <<entryCalls, entriesTable, entries, entrySeq, deleteVars>>
widgetVars == <<ms_entry_input_rendered, instPc, skipRef, shown>>
delayedVars == <<restartTimers, voiceCalls>>
statsVars == <<statsRow, statsCalls>>
vars == <<now, status, toast, captureVars, summaryVars, entryVars, widgetVars,
          delayedVars, statsVars>>

(* ------------------------------ strings -------------------------------- *)
Space == <<" ">>

RECURSIVE TrimStart(_)
TrimStart(s) ==
  IF s # <<>> /\ Head(s) = " " THEN TrimStart(Tail(s)) ELSE s

RECURSIVE TrimEnd(_)
TrimEnd(s) ==
  IF s # <<>> /\ s[Len(s)] = " " THEN TrimEnd(SubSeq(s, 1, Len(s) - 1)) ELSE s

Trim(s) == TrimEnd(TrimStart(s))

\* what the recognizer may deliver in one result event
InterimTexts == {<<>>, <<"b">>}
FinalTexts == {<<>>, <<"a">>, <<"b">>, <<" ">>}
\* what the user may type into the input
TypedTexts == {<<>>, <<"b">>, <<" ">>, <<"a", " ">>}

\* the stars the user hovers over and clicks
HoverInputs == {0, 4}
SelectInputs == {1, 5}

NoRow == [summary_text |-> NoDraft, rating |-> 0, range_start |-> 0,
          range_end |-> 0, for_date |-> 0]

\* the EntryInput instances the page may mount
Instances == 1..MaxInstances

\* no row of user_stats for the user
NoStats == [last_summary_date |-> -1, streak_count |-> 0]

NoTarget == [kind |-> "none", id |-> 0]

(* ------------------------------ initial -------------------------------- *)
Init ==
  /\ now = 2 * DayMs
  /\ recogAvailable = FALSE
  /\ recState = "inactive"
  /\ startCalls = 0
  /\ holdingRef = FALSE
  /\ lastStartTimeRef = 0
  /\ isRecording = FALSE
  /\ interim = <<>>
  /\ finalText = <<>>
  /\ finals = <<>>
  /\ draftAtPress = <<>>
  /\ status = "none"
  /\ toast = "none"
  /\ signedIn \in BOOLEAN
  /\ generatedSummary = NoDraft
  /\ generatedAt = 0
  /\ isGenerating = FALSE
  /\ isSavingRating = FALSE
  /\ hoverRating = 0
  /\ selectedRating = 0
  /\ localSaving = FALSE
  /\ genPc = "idle"
  /\ genSince = 0
  /\ genFrom = NoDraft
  /\ genCount = 0
  /\ draftRange = [d \in 1..(MaxGen + 1) |-> 0]
  /\ savePc = "idle"
  /\ saveText = NoDraft
  /\ saveRating = 0
  /\ saveRow = NoRow
  /\ summariesTable = <<>>
  /\ summaries = <<>>
  /\ discarded = {}
  /\ entryCalls = <<>>
  /\ entriesTable = <<>>
  /\ entries = <<>>
  /\ entrySeq = 0
  /\ confirmTarget = NoTarget
  /\ deleteCalls = <<>>
  /\ ms_entry_input_rendered = FALSE
  /\ instPc = [i \in Instances |-> "unmounted"]
  /\ skipRef = [i \in Instances |-> FALSE]
  /\ shown = [i \in Instances |-> FALSE]
  /\ restartTimers = <<>>
  /\ voiceCalls = <<>>
  /\ statsRow = NoStats
  /\ statsCalls = <<>>

(* ------------------------------ clock ---------------------------------- *)
Tick ==
  /\ now < 2 * DayMs + MaxTicks * TickMs
  /\ now' = now + TickMs
  /\ UNCHANGED <<status, toast, captureVars, summaryVars, entryVars, widgetVars,
                 delayedVars, statsVars>>

\* showToast's timer fires: setToast(null)
toastExpire ==
  /\ toast # "none"
  /\ toast' = "none"
  /\ UNCHANGED <<now, status, captureVars, summaryVars, entryVars, widgetVars,
                 delayedVars, statsVars>>

(* ------------------------- platform recognizer ------------------------- *)
\* SpeechRecognition.start() throws InvalidStateError unless the recognizer
\* is inactive; stop() on a recognizer that is not active does nothing.
StartThrows == recState # "inactive"
AfterStop == IF recState = "active" THEN "stopping" ELSE recState

(* ---------------------------- capture session -------------------------- *)
\* the mount effect finds a SpeechRecognition constructor and keeps an instance
speechEffect ==
  /\ ~recogAvailable
  /\ recogAvailable' = TRUE
  /\ UNCHANGED <<now, status, toast, summaryVars, entryVars, recState, startCalls,
                 holdingRef, lastStartTimeRef, isRecording, interim, finalText,
                 finals, draftAtPress, widgetVars, delayedVars, statsVars>>

\* startRecording whose catch leaves holdingRef.current as the try set it
startRecording_KeepsIntentOnThrow ==
  /\ UNCHANGED <<now, summaryVars, entryVars, recogAvailable, widgetVars,
                 delayedVars, statsVars>>
  /\ draftAtPress' = finalText
  /\ IF ~recogAvailable
     THEN /\ toast' = "Speech API not available in this browser"
          /\ UNCHANGED <<status, recState, startCalls, holdingRef,
                         lastStartTimeRef, isRecording, interim, finalText,
                         finals>>
     ELSE /\ lastStartTimeRef' = now
          /\ startCalls' = (startCalls + 1) % StartWrap
          /\ IF StartThrows
             THEN /\ status' = "Mic error"
                  /\ toast' = "Mic error"
                  /\ holdingRef' = TRUE
                  /\ UNCHANGED <<recState, isRecording, interim, finalText,
                                 finals>>
             ELSE /\ holdingRef' = TRUE
                  /\ recState' = "active"
                  /\ isRecording' = TRUE
                  /\ interim' = <<>>
                  /\ finalText' = <<>>
                  /\ finals' = <<>>
                  /\ status' = "Recording..."
                  /\ UNCHANGED toast

\* startRecording without its setFinalText('')
startRecording_KeepsText ==
  /\ UNCHANGED <<now, summaryVars, entryVars, recogAvailable, widgetVars,
                 delayedVars, statsVars>>
  /\ draftAtPress' = finalText
  /\ IF ~recogAvailable
     THEN /\ toast' = "Speech API not available in this browser"
          /\ UNCHANGED <<status, recState, startCalls, holdingRef,
                         lastStartTimeRef, isRecording, interim, finalText,
                         finals>>
     ELSE /\ lastStartTimeRef' = now
          /\ startCalls' = (startCalls + 1) % StartWrap
          /\ IF StartThrows
             THEN /\ status' = "Mic error"
                  /\ toast' = "Mic error"
                  /\ holdingRef' = FALSE
                  /\ UNCHANGED <<recState, isRecording, interim, finalText,
                                 finals>>
             ELSE /\ holdingRef' = TRUE
                  /\ recState' = "active"
                  /\ isRecording' = TRUE
                  /\ interim' = <<>>
                  /\ UNCHANGED <<finalText, finals>>
                  /\ status' = "Recording..."
                  /\ UNCHANGED toast

startRecording ==
  /\ UNCHANGED <<now, summaryVars, entryVars, recogAvailable, widgetVars,
                 delayedVars, statsVars>>
  /\ draftAtPress' = finalText
  /\ IF ~recogAvailable
     THEN /\ toast' = "Speech API not available in this browser"
          /\ UNCHANGED <<status, recState, startCalls, holdingRef,
                         lastStartTimeRef, isRecording, interim, finalText,
                         finals>>
     ELSE /\ lastStartTimeRef' = now
          /\ startCalls' = (startCalls + 1) % StartWrap
          /\ IF StartThrows
             THEN /\ status' = "Mic error"
                  /\ toast' = "Mic error"
                  /\ holdingRef' = FALSE
                  /\ UNCHANGED <<recState, isRecording, interim, finalText,
                                 finals>>
             ELSE /\ holdingRef' = TRUE
                  /\ recState' = "active"
                  /\ isRecording' = TRUE
                  /\ interim' = <<>>
                  /\ finalText' = <<>>
                  /\ finals' = <<>>
                  /\ status' = "Recording..."
                  /\ UNCHANGED toast

\* stopRecording handing over the final text alone
stopRecording_DropsInterim ==
  LET text == Trim(finalText)
  IN /\ UNCHANGED <<now, summaryVars, entryVars, recogAvailable, startCalls,
                    lastStartTimeRef, draftAtPress, widgetVars,
                    delayedVars, statsVars>>
     /\ holdingRef' = FALSE
     /\ recState' = AfterStop
     /\ isRecording' = FALSE
     /\ interim' = <<>>
     /\ finals' = <<>>
     /\ IF text = <<>>
        THEN /\ status' = "No speech captured."
             /\ UNCHANGED <<finalText, toast>>
        ELSE /\ finalText' = text
             /\ status' = "Transcription ready"
             /\ toast' = "Transcription ready"

\* stopRecording as in the page's older variant: it saves the transcript itself
stopRecording_SavesVoice ==
  LET text == Trim(finalText \o (IF interim # <<>> THEN Space \o interim ELSE <<>>))
  IN /\ UNCHANGED <<now, summaryVars, entriesTable, entries, entrySeq,
                    deleteVars, recogAvailable, startCalls,
                    lastStartTimeRef, draftAtPress, widgetVars,
                    delayedVars, statsVars>>
     /\ holdingRef' = FALSE
     /\ recState' = AfterStop
     /\ isRecording' = FALSE
     /\ interim' = <<>>
     /\ finals' = <<>>
     /\ IF text = <<>>
        THEN /\ status' = "No speech captured."
             /\ UNCHANGED <<finalText, toast, entryCalls>>
        ELSE /\ finalText' = text
             /\ status' = "Transcription ready"
             /\ toast' = "Transcription ready"
             /\ Len(entryCalls) < MaxCalls
             /\ entryCalls' = Append(entryCalls,
                                     [pc |-> "auth", text |-> text,
                                      content |-> <<>>, uid |-> "none"])

stopRecording ==
  LET text == Trim(finalText \o (IF interim # <<>> THEN Space \o interim ELSE <<>>))
  IN /\ UNCHANGED <<now, summaryVars, entryVars, recogAvailable, startCalls,
                    lastStartTimeRef, draftAtPress, widgetVars,
                    delayedVars, statsVars>>
     /\ holdingRef' = FALSE
     /\ recState' = AfterStop
     /\ isRecording' = FALSE
     /\ interim' = <<>>
     /\ finals' = <<>>
     /\ IF text = <<>>
        THEN /\ status' = "No speech captured."
             /\ UNCHANGED <<finalText, toast>>
        ELSE /\ finalText' = text
             /\ status' = "Transcription ready"
             /\ toast' = "Transcription ready"

\* onresult appending the final fragment with no separator
onresult_NoSeparator(interimT, finalT) ==
  /\ recState \in {"active", "stopping"}
  /\ Len(finalText) + 1 + Len(finalT) <= MaxText
  /\ UNCHANGED <<now, status, toast, summaryVars, entryVars, recogAvailable, recState,
                 startCalls, holdingRef, lastStartTimeRef, isRecording,
                 draftAtPress, widgetVars, delayedVars, statsVars>>
  /\ IF finalT # <<>>
     THEN /\ finalText' = finalText \o finalT
          /\ finals' = Append(finals, finalT)
          /\ interim' = <<>>
     ELSE /\ interim' = (IF interimT # <<>> THEN interimT ELSE interim)
          /\ UNCHANGED <<finalText, finals>>

onresult(interimT, finalT) ==
  /\ recState \in {"active", "stopping"}
  /\ Len(finalText) + 1 + Len(finalT) <= MaxText
  /\ UNCHANGED <<now, status, toast, summaryVars, entryVars, recogAvailable, recState,
                 startCalls, holdingRef, lastStartTimeRef, isRecording,
                 draftAtPress, widgetVars, delayedVars, statsVars>>
  /\ IF finalT # <<>>
     THEN /\ finalText' = (IF finalText # <<>> THEN finalText \o Space \o finalT
                           ELSE finalT)
          /\ finals' = Append(finals, finalT)
          /\ interim' = <<>>
     ELSE /\ interim' = (IF interimT # <<>> THEN interimT ELSE interim)
          /\ UNCHANGED <<finalText, finals>>

\* onerror as in the page's older variant, which leaves holdingRef alone
onerror_KeepsIntent ==
  /\ recState \in {"active", "stopping"}
  /\ recState' = "errored"
  /\ isRecording' = FALSE
  /\ toast' = "Recognition error"
  /\ UNCHANGED <<now, status, summaryVars, entryVars, recogAvailable, startCalls,
                 lastStartTimeRef, interim, finalText, holdingRef, finals,
                 widgetVars, delayedVars, statsVars>>
  /\ draftAtPress' = <<>>

onerror ==
  /\ recState \in {"active", "stopping"}
  /\ recState' = "errored"
  /\ holdingRef' = FALSE
  /\ isRecording' = FALSE
  /\ toast' = "Recognition error"
  /\ draftAtPress' = <<>>
  /\ UNCHANGED <<now, status, summaryVars, entryVars, recogAvailable, startCalls,
                 lastStartTimeRef, interim, finalText, finals, widgetVars,
                 delayedVars, statsVars>>

\* the debounce test with >= in place of >
RestartDue_AtLeast == now - lastStartTimeRef >= DebounceMs

\* the debounce test of r.onend
RestartDue == now - lastStartTimeRef > DebounceMs

\* onend without the test of the holding intent
onend_IgnoresIntent ==
  /\ recState \in {"active", "stopping", "errored"}
  /\ UNCHANGED <<now, status, toast, summaryVars, entryVars, recogAvailable, holdingRef,
                 interim, finalText, isRecording, finals, draftAtPress,
                 widgetVars, delayedVars, statsVars>>
  /\ IF RestartDue
     THEN /\ lastStartTimeRef' = now
          /\ startCalls' = (startCalls + 1) % StartWrap
          /\ recState' = "active"
     ELSE /\ recState' = "inactive"
          /\ UNCHANGED <<lastStartTimeRef, startCalls>>

\* r.onend: the recognizer has ended (it is inactive when the handler runs)
onend ==
  /\ recState \in {"active", "stopping", "errored"}
  /\ UNCHANGED <<now, status, toast, summaryVars, entryVars, recogAvailable, holdingRef,
                 interim, finalText, finals, draftAtPress, widgetVars,
                 delayedVars, statsVars>>
  /\ IF holdingRef
     THEN IF RestartDue
          THEN /\ lastStartTimeRef' = now
               /\ startCalls' = (startCalls + 1) % StartWrap
               /\ recState' = "active"
               /\ UNCHANGED isRecording
          ELSE /\ recState' = "inactive"
               /\ UNCHANGED <<lastStartTimeRef, startCalls, isRecording>>
     ELSE /\ recState' = "inactive"
          /\ isRecording' = FALSE
          /\ UNCHANGED <<lastStartTimeRef, startCalls>>

\* typing into the input: setFinalText(e.target.value)
setFinalText(t) ==
  /\ finalText' = t
  /\ finals' = <<>>
  /\ draftAtPress' = t
  /\ UNCHANGED <<now, status, toast, summaryVars, entryVars, recogAvailable, recState,
                 startCalls, holdingRef, lastStartTimeRef, isRecording, interim,
                 widgetVars, delayedVars, statsVars>>

NextCapture ==
  \/ Tick
  \/ toastExpire
  \/ speechEffect
  \/ startRecording
  \/ stopRecording
  \/ \E i \in InterimTexts, f \in FinalTexts : onresult(i, f)
  \/ onerror
  \/ onend
  \/ \E t \in TypedTexts : setFinalText(t)

SpecCapture == Init /\ [][NextCapture]_vars

\* a session in which only the recognizer writes the text: the button is
\* pressed and held, nothing is typed
NextMerge ==
  \/ Tick
  \/ speechEffect
  \/ startRecording
  \/ \E i \in InterimTexts, f \in FinalTexts : onresult(i, f)
  \/ onerror
  \/ onend

SpecMerge == Init /\ [][NextMerge]_vars

\* typing while no recording is shown
typeWhileIdle(t) == ~isRecording /\ setFinalText(t)

\* hold-to-record cycles during which the user does not type
NextCycle ==
  \/ Tick
  \/ speechEffect
  \/ startRecording
  \/ stopRecording
  \/ \E i \in InterimTexts, f \in FinalTexts : onresult(i, f)
  \/ onerror
  \/ onend
  \/ \E t \in TypedTexts : typeWhileIdle(t)

SpecCycle == Init /\ [][NextCycle]_vars

(* ----------------------------- entry commit ---------------------------- *)
\* EntryInput: the Save button is enabled only when canSave
canSave == Trim(finalText) # <<>> /\ ~isRecording

RemoveAt(C, i) == SubSeq(C, 1, i - 1) \o SubSeq(C, i + 1, Len(C))

\* fetchEntries' select: newest first
EntriesFromTable(T) == [i \in 1..Len(T) |-> T[Len(T) + 1 - i]]

\* saveTextEntry(text), up to its await of getUser
saveTextEntry(text) ==
  /\ Len(entryCalls) < MaxCalls
  /\ entryCalls' = Append(entryCalls,
                          [pc |-> "auth", text |-> text, content |-> <<>>,
                           uid |-> "none"])
  /\ UNCHANGED <<now, status, toast, captureVars, summaryVars, entriesTable,
                 entries, entrySeq, deleteVars, widgetVars,
                 delayedVars, statsVars>>

\* the Save button of the action column
saveButton ==
  /\ canSave
  /\ saveTextEntry(finalText)

\* the 'Save transcription' button under the text area
saveTranscriptionButton ==
  /\ finalText # <<>>
  /\ saveTextEntry(finalText)

\* the 'Cancel' button under the text area
cancelTranscription ==
  /\ finalText # <<>>
  /\ finalText' = <<>>
  /\ finals' = <<>>
  /\ draftAtPress' = <<>>
  /\ status' = "Transcription discarded."
  /\ toast' = "Transcription discarded"
  /\ UNCHANGED <<now, summaryVars, entryVars, recogAvailable, recState,
                 startCalls, holdingRef, lastStartTimeRef, isRecording, interim,
                 widgetVars, delayedVars, statsVars>>

\* saveTextEntry after getUser, without the test of the trimmed text
entryAuthDone_NoEmptyCheck(i) ==
  /\ i \in 1..Len(entryCalls)
  /\ entryCalls[i].pc = "auth"
  /\ UNCHANGED <<now, status, captureVars, summaryVars, entriesTable, entries,
                 entrySeq, deleteVars, widgetVars, delayedVars, statsVars>>
  /\ IF ~signedIn
     THEN /\ toast' = "Please sign in to save an entry."
          /\ entryCalls' = RemoveAt(entryCalls, i)
     ELSE /\ entryCalls' = [entryCalls EXCEPT
                              ![i] = [pc |-> "insert", text |-> @.text,
                                      content |-> Trim(@.text),
                                      uid |-> "user"]]
          /\ UNCHANGED toast

\* saveTextEntry after getUser: the two guards, then the insert request.
\* normalize('NFC') leaves the characters of this alphabet as they are.
entryAuthDone(i) ==
  /\ i \in 1..Len(entryCalls)
  /\ entryCalls[i].pc = "auth"
  /\ UNCHANGED <<now, status, captureVars, summaryVars, entriesTable, entries,
                 entrySeq, deleteVars, widgetVars, delayedVars, statsVars>>
  /\ IF ~signedIn
     THEN /\ toast' = "Please sign in to save an entry."
          /\ entryCalls' = RemoveAt(entryCalls, i)
     ELSE IF Trim(entryCalls[i].text) = <<>>
          THEN /\ toast' = "Cannot save empty entry."
               /\ entryCalls' = RemoveAt(entryCalls, i)
          ELSE /\ entryCalls' = [entryCalls EXCEPT
                                   ![i] = [pc |-> "insert", text |-> @.text,
                                           content |-> Trim(@.text),
                                           uid |-> "user"]]
               /\ UNCHANGED toast

\* the row the insert of invocation i stores: the table supplies the id
NewEntry(i) == [id |-> entrySeq + 1, content |-> entryCalls[i].content,
                user_id |-> entryCalls[i].uid]

\* saveTextEntry's success tail: setFinalText('') and the affirmation toast
entryDone(i) ==
  /\ finalText' = <<>>
  /\ finals' = <<>>
  /\ toast' = "affirmation"
  /\ entryCalls' = RemoveAt(entryCalls, i)

\* the entries insert with the input cleared whatever the insert's result
entryInsertDone_ClearsOnError(i, outcome) ==
  /\ i \in 1..Len(entryCalls)
  /\ entryCalls[i].pc = "insert"
  /\ UNCHANGED <<now, status, summaryVars, recogAvailable, recState,
                 startCalls, holdingRef, lastStartTimeRef, isRecording,
                 interim, draftAtPress, deleteVars, widgetVars,
                 delayedVars, statsVars>>
  /\ CASE outcome = "error" ->
            /\ toast' = "Save failed"
            /\ finalText' = <<>>
            /\ finals' = <<>>
            /\ entryCalls' = RemoveAt(entryCalls, i)
            /\ UNCHANGED <<entriesTable, entries, entrySeq>>
       [] outcome = "row" ->
            /\ entrySeq < MaxEntries
            /\ entrySeq' = entrySeq + 1
            /\ entriesTable' = Append(entriesTable, NewEntry(i))
            /\ entries' = <<NewEntry(i)>> \o entries
            /\ entryDone(i)
       [] outcome = "norow" ->
            /\ entrySeq < MaxEntries
            /\ entrySeq' = entrySeq + 1
            /\ entriesTable' = Append(entriesTable, NewEntry(i))
            /\ entryCalls' = [entryCalls EXCEPT ![i].pc = "refetch"]
            /\ UNCHANGED <<toast, finalText, finals, entries>>

\* the entries insert answers: error; the inserted row; or no row in the reply
entryInsertDone(i, outcome) ==
  /\ i \in 1..Len(entryCalls)
  /\ entryCalls[i].pc = "insert"
  /\ UNCHANGED <<now, status, summaryVars, recogAvailable, recState,
                 startCalls, holdingRef, lastStartTimeRef, isRecording,
                 interim, draftAtPress, deleteVars, widgetVars,
                 delayedVars, statsVars>>
  /\ CASE outcome = "error" ->
            /\ toast' = "Save failed"
            /\ entryCalls' = RemoveAt(entryCalls, i)
            /\ UNCHANGED <<finalText, finals, entriesTable, entries, entrySeq>>
       [] outcome = "row" ->
            /\ entrySeq < MaxEntries
            /\ entrySeq' = entrySeq + 1
            /\ entriesTable' = Append(entriesTable, NewEntry(i))
            /\ entries' = <<NewEntry(i)>> \o entries
            /\ entryDone(i)
       [] outcome = "norow" ->
            /\ entrySeq < MaxEntries
            /\ entrySeq' = entrySeq + 1
            /\ entriesTable' = Append(entriesTable, NewEntry(i))
            /\ entryCalls' = [entryCalls EXCEPT ![i].pc = "refetch"]
            /\ UNCHANGED <<toast, finalText, finals, entries>>

\* the awaited fetchEntries answers (its getUser and select as one step),
\* then saveTextEntry's success tail
entryRefetchDone(i, outcome) ==
  /\ i \in 1..Len(entryCalls)
  /\ entryCalls[i].pc = "refetch"
  /\ UNCHANGED <<now, status, summaryVars, recogAvailable, recState,
                 startCalls, holdingRef, lastStartTimeRef, isRecording,
                 interim, draftAtPress, entriesTable, entrySeq, deleteVars,
                 widgetVars, delayedVars, statsVars>>
  /\ entries' = (IF outcome = "ok" THEN EntriesFromTable(entriesTable) ELSE <<>>)
  /\ entryDone(i)

EntryInsertOutcomes == {"error", "row", "norow"}
EntryRefetchOutcomes == {"ok", "error"}
CallSlots == 1..MaxCalls

NextEntry ==
  \/ toastExpire
  \/ \E t \in TypedTexts : setFinalText(t)
  \/ cancelTranscription
  \/ saveButton
  \/ saveTranscriptionButton
  \/ \E i \in CallSlots : entryAuthDone(i)
  \/ \E i \in CallSlots, o \in EntryInsertOutcomes : entryInsertDone(i, o)
  \/ \E i \in CallSlots, o \in EntryRefetchOutcomes : entryRefetchDone(i, o)

SpecEntry == Init /\ [][NextEntry]_vars

\* the user types a text while nothing was saved and no save is in flight
typeFirstDraft(t) ==
  /\ entryCalls = <<>>
  /\ entriesTable = <<>>
  /\ setFinalText(t)

\* the inserts answer with an error or with the inserted row
RepeatOutcomes == {"error", "row"}

\* one typed text and the buttons under it, pressed any number of times
NextRepeat ==
  \/ toastExpire
  \/ \E t \in TypedTexts : typeFirstDraft(t)
  \/ cancelTranscription
  \/ saveButton
  \/ saveTranscriptionButton
  \/ \E i \in CallSlots : entryAuthDone(i)
  \/ \E i \in CallSlots, o \in RepeatOutcomes : entryInsertDone(i, o)

SpecRepeat == Init /\ [][NextRepeat]_vars

\* the final fragments the recognizer delivers to a held recording
VoiceFinals == {<<"a">>, <<" ">>}

\* the input fed by hold-to-record alone, with its save controls; at most
\* MaxVoiceSaves invocations of saveTextEntry are in flight beside a recording
NextVoiceEntry ==
  \/ Len(entryCalls) < MaxVoiceSaves /\ saveButton
  \/ Len(entryCalls) < MaxVoiceSaves /\ saveTranscriptionButton
  \/ \E i \in CallSlots : entryAuthDone(i)
  \/ \E i \in CallSlots, o \in EntryInsertOutcomes : entryInsertDone(i, o)
  \/ \E i \in CallSlots, o \in EntryRefetchOutcomes : entryRefetchDone(i, o)
  \/ speechEffect
  \/ startRecording
  \/ stopRecording
  \/ \E f \in VoiceFinals : onresult(<<>>, f)

SpecVoiceEntry == Init /\ [][NextVoiceEntry]_vars

(* --------------------------- summary lifecycle ------------------------- *)
\* the SummaryCard is rendered only while generatedSummary is truthy
CardMounted == generatedSummary # NoDraft

\* fetchSummaries' select: newest first
ListFromTable(T) == [i \in 1..Len(T) |-> T[Len(T) + 1 - i].summary_text]

\* 'Reflect on your day' (disabled while isGenerating): up to the entries query
generate24hSummary ==
  /\ ~isGenerating
  /\ isGenerating' = TRUE
  /\ status' = "Loading recent entries..."
  /\ genSince' = now - DayMs
  /\ genFrom' = generatedSummary
  /\ genPc' = "query"
  /\ UNCHANGED <<now, toast, captureVars, entryVars, signedIn, generatedSummary,
                 generatedAt, isSavingRating, hoverRating, selectedRating,
                 localSaving, genCount, draftRange, savePc, saveText,
                 saveRating, saveRow, summariesTable, summaries, discarded,
                 widgetVars, delayedVars, statsVars>>

\* generateQueryDone whose catch path does not reach a finally block
generateQueryDone_NoFinally(outcome) ==
  /\ genPc = "query"
  /\ UNCHANGED <<now, captureVars, entryVars, signedIn, generatedSummary, generatedAt,
                 isSavingRating, hoverRating, selectedRating, localSaving,
                 genCount, draftRange, savePc, saveText, saveRating,
                 saveRow, summariesTable, summaries, discarded, widgetVars,
                 delayedVars, statsVars>>
  /\ CASE outcome = "error" ->
            /\ toast' = "Generation failed"
            /\ isGenerating' = isGenerating
            /\ genPc' = "idle"
            /\ genSince' = 0
            /\ genFrom' = NoDraft
            /\ UNCHANGED status
       [] outcome = "empty" ->
            /\ toast' = "No entries in the past 24 hours"
            /\ isGenerating' = FALSE
            /\ genPc' = "idle"
            /\ genSince' = 0
            /\ genFrom' = NoDraft
            /\ UNCHANGED status
       [] outcome = "rows" ->
            /\ status' = "Generating reflection"
            /\ genPc' = "fetch"
            /\ UNCHANGED <<toast, isGenerating, genSince, genFrom>>

\* the entries query resolves
generateQueryDone(outcome) ==
  /\ genPc = "query"
  /\ UNCHANGED <<now, captureVars, entryVars, signedIn, generatedSummary, generatedAt,
                 isSavingRating, hoverRating, selectedRating, localSaving,
                 genCount, draftRange, savePc, saveText, saveRating,
                 saveRow, summariesTable, summaries, discarded, widgetVars,
                 delayedVars, statsVars>>
  /\ CASE outcome = "error" ->
            /\ toast' = "Generation failed"
            /\ isGenerating' = FALSE
            /\ genPc' = "idle"
            /\ genSince' = 0
            /\ genFrom' = NoDraft
            /\ UNCHANGED status
       [] outcome = "empty" ->
            /\ toast' = "No entries in the past 24 hours"
            /\ isGenerating' = FALSE
            /\ genPc' = "idle"
            /\ genSince' = 0
            /\ genFrom' = NoDraft
            /\ UNCHANGED status
       [] outcome = "rows" ->
            /\ status' = "Generating reflection"
            /\ genPc' = "fetch"
            /\ UNCHANGED <<toast, isGenerating, genSince, genFrom>>

\* the summarizer request resolves
generateFetchDone(outcome) ==
  /\ genPc = "fetch"
  /\ genPc' = "idle"
  /\ isGenerating' = FALSE
  /\ genSince' = 0
  /\ genFrom' = NoDraft
  /\ UNCHANGED <<now, status, captureVars, entryVars, signedIn, isSavingRating,
                 hoverRating, savePc, saveText, saveRating, saveRow,
                 summariesTable, summaries, discarded, widgetVars,
                 delayedVars, statsVars>>
  /\ CASE outcome = "throw" ->
            /\ toast' = "Generation failed"
            /\ UNCHANGED <<generatedSummary, generatedAt, genCount, draftRange,
                           selectedRating, localSaving>>
       [] outcome = "notok" ->
            /\ toast' = "Couldn't generate reflection right now"
            /\ UNCHANGED <<generatedSummary, generatedAt, genCount, draftRange,
                           selectedRating, localSaving>>
       [] outcome = "ok" ->
            /\ genCount < MaxGen
            /\ genCount' = genCount + 1
            /\ generatedSummary' = genCount + 1
            /\ generatedAt' = now
            /\ draftRange' = [draftRange EXCEPT ![genCount + 1] = genSince]
            /\ toast' = "Reflection ready"
            /\ UNCHANGED <<selectedRating, localSaving>>
       [] outcome = "blank" ->
            /\ generatedSummary' = NoDraft
            /\ generatedAt' = now
            /\ toast' = "Reflection ready"
            /\ selectedRating' = 0
            /\ localSaving' = FALSE
            /\ UNCHANGED <<genCount, draftRange>>

\* star buttons of the SummaryCard: hover and focus
setHoverRating(n) ==
  /\ CardMounted
  /\ hoverRating' = n
  /\ UNCHANGED <<now, status, toast, captureVars, entryVars, signedIn, generatedSummary,
                 generatedAt, isGenerating, isSavingRating, selectedRating,
                 localSaving, genPc, genSince, genFrom, genCount, draftRange, savePc,
                 saveText, saveRating, saveRow, summariesTable, summaries,
                 discarded, widgetVars, delayedVars, statsVars>>

\* star buttons of the SummaryCard: click toggles the selection
setSelectedRating(n) ==
  /\ CardMounted
  /\ selectedRating' = (IF selectedRating = n THEN 0 ELSE n)
  /\ UNCHANGED <<now, status, toast, captureVars, entryVars, signedIn, generatedSummary,
                 generatedAt, isGenerating, isSavingRating, hoverRating,
                 localSaving, genPc, genSince, genFrom, genCount, draftRange, savePc,
                 saveText, saveRating, saveRow, summariesTable, summaries,
                 discarded, widgetVars, delayedVars, statsVars>>

\* selectedRating || hoverRating without the default
RatingToSave_NoDefault ==
  IF selectedRating # 0 THEN selectedRating ELSE hoverRating

\* selectedRating || hoverRating || 5
RatingToSave ==
  IF selectedRating # 0 THEN selectedRating
  ELSE IF hoverRating # 0 THEN hoverRating ELSE 5

\* saveRatedSummary(rating) up to its first await; one invocation runs at a time
saveRatedSummary(rating) ==
  /\ generatedSummary # NoDraft
  /\ savePc = "idle"
  /\ isSavingRating' = TRUE
  /\ status' = "Saving reflection..."
  /\ savePc' = "auth"
  /\ saveText' = generatedSummary
  /\ saveRating' = rating
  /\ UNCHANGED <<now, toast, captureVars, entryVars, signedIn, generatedSummary,
                 generatedAt, isGenerating, hoverRating, selectedRating, genPc,
                 genSince, genFrom, genCount, draftRange, saveRow, summariesTable,
                 summaries, discarded, widgetVars, delayedVars, statsVars>>

\* 'Save Reflection' of the SummaryCard
handleSave ==
  /\ CardMounted
  /\ ~(localSaving \/ isSavingRating)
  /\ localSaving' = TRUE
  /\ saveRatedSummary(RatingToSave)

\* getUser / getSession resolve; the row to insert is built
saveAuthDone ==
  /\ savePc = "auth"
  /\ UNCHANGED <<now, status, captureVars, entryVars, signedIn, generatedSummary,
                 generatedAt, isGenerating, hoverRating, selectedRating, genPc,
                 genSince, genFrom, genCount, draftRange, summariesTable, summaries,
                 discarded, widgetVars, delayedVars, statsVars>>
  /\ IF ~signedIn
     THEN /\ toast' = "Please sign in to save the reflection"
          /\ isSavingRating' = FALSE
          /\ localSaving' = FALSE
          /\ savePc' = "idle"
          /\ saveText' = NoDraft
          /\ saveRating' = 0
          /\ UNCHANGED saveRow
     ELSE /\ saveRow' = [summary_text |-> saveText, rating |-> saveRating,
                         range_start |-> now - DayMs, range_end |-> now,
                         for_date |-> now \div DayMs]
          /\ savePc' = "insert"
          /\ UNCHANGED <<toast, isSavingRating, localSaving, saveText,
                         saveRating>>

\* saveInsertDone that forgets to clear the draft once the row is written
saveInsertDone_KeepsDraft(outcome) ==
  /\ savePc = "insert"
  /\ saveText' = NoDraft
  /\ saveRating' = 0
  /\ saveRow' = NoRow
  /\ UNCHANGED <<now, status, captureVars, entryVars, signedIn, isGenerating, genPc,
                 genSince, genFrom, genCount, draftRange, discarded, generatedSummary,
                 generatedAt, selectedRating, toast, widgetVars,
                 delayedVars, statsVars>>
  /\ isSavingRating' = FALSE
  /\ localSaving' = FALSE
  /\ savePc' = "idle"
  /\ IF outcome = "error"
     THEN UNCHANGED <<hoverRating, summariesTable, summaries>>
     ELSE /\ Len(summariesTable) < MaxRows
          /\ summariesTable' = Append(summariesTable, saveRow)
          /\ summaries' = <<saveRow.summary_text>> \o summaries
          /\ hoverRating' = 0

\* saveInsertDone that clears the draft whatever the insert answered
saveInsertDone_ClearsOnError(outcome) ==
  /\ savePc = "insert"
  /\ saveText' = NoDraft
  /\ saveRating' = 0
  /\ saveRow' = NoRow
  /\ UNCHANGED <<now, status, captureVars, entryVars, signedIn, isGenerating, genPc,
                 genSince, genFrom, genCount, draftRange, discarded,
                 widgetVars, delayedVars, statsVars>>
  /\ generatedSummary' = NoDraft
  /\ generatedAt' = 0
  /\ hoverRating' = 0
  /\ selectedRating' = 0
  /\ localSaving' = FALSE
  /\ IF outcome = "error"
     THEN /\ toast' = "Could not save reflection"
          /\ isSavingRating' = FALSE
          /\ savePc' = "idle"
          /\ UNCHANGED <<summariesTable, summaries>>
     ELSE /\ Len(summariesTable) < MaxRows
          /\ summariesTable' = Append(summariesTable, saveRow)
          /\ summaries' = <<saveRow.summary_text>> \o summaries
          /\ savePc' = "stats"
          /\ UNCHANGED <<toast, isSavingRating>>

\* the insert into summaries resolves
saveInsertDone(outcome) ==
  /\ savePc = "insert"
  /\ saveText' = (IF outcome = "norow" THEN saveText ELSE NoDraft)
  /\ saveRating' = 0
  /\ saveRow' = NoRow
  /\ UNCHANGED <<now, status, captureVars, entryVars, signedIn, isGenerating, genPc,
                 genSince, genFrom, genCount, draftRange, discarded,
                 widgetVars, delayedVars, statsVars>>
  /\ CASE outcome = "error" ->
            /\ toast' = "Could not save reflection"
            /\ isSavingRating' = FALSE
            /\ localSaving' = FALSE
            /\ savePc' = "idle"
            /\ UNCHANGED <<generatedSummary, generatedAt, hoverRating,
                           selectedRating, summariesTable, summaries>>
       [] outcome = "row" ->
            /\ Len(summariesTable) < MaxRows
            /\ summariesTable' = Append(summariesTable, saveRow)
            /\ summaries' = <<saveRow.summary_text>> \o summaries
            /\ generatedSummary' = NoDraft
            /\ generatedAt' = 0
            /\ hoverRating' = 0
            /\ selectedRating' = 0
            /\ localSaving' = FALSE
            /\ savePc' = "stats"
            /\ UNCHANGED <<toast, isSavingRating>>
       [] outcome = "norow" ->
            /\ Len(summariesTable) < MaxRows
            /\ summariesTable' = Append(summariesTable, saveRow)
            /\ savePc' = "refetch"
            /\ UNCHANGED <<toast, isSavingRating, generatedSummary, generatedAt,
                           hoverRating, selectedRating, localSaving, summaries>>

\* the insert returned no row: fetchSummaries resolves, then the draft is cleared
saveRefetchDone(outcome) ==
  /\ savePc = "refetch"
  /\ summaries' = (IF outcome = "ok" /\ signedIn
                   THEN ListFromTable(summariesTable) ELSE <<>>)
  /\ generatedSummary' = NoDraft
  /\ generatedAt' = 0
  /\ hoverRating' = 0
  /\ selectedRating' = 0
  /\ localSaving' = FALSE
  /\ savePc' = "stats"
  /\ saveText' = NoDraft
  /\ UNCHANGED <<now, status, toast, captureVars, entryVars, signedIn, isGenerating,
                 isSavingRating, genPc, genSince, genFrom, genCount, draftRange,
                 saveRating, saveRow, summariesTable, discarded, widgetVars,
                 delayedVars, statsVars>>

\* the streak request with a thrown failure reaching saveRatedSummary's catch
saveStatsDone_Rethrows(outcome) ==
  /\ savePc = "stats"
  /\ UNCHANGED <<now, status, captureVars, entryVars, signedIn, generatedSummary,
                 generatedAt, isGenerating, hoverRating,
                 selectedRating, genPc, genSince, genFrom, genCount,
                 draftRange, saveText, saveRating, saveRow, summariesTable,
                 summaries, discarded, widgetVars, delayedVars, statsVars>>
  /\ IF outcome = "throw"
     THEN /\ toast' = "Could not save reflection"
          /\ isSavingRating' = FALSE
          /\ localSaving' = FALSE
          /\ savePc' = "idle"
     ELSE /\ savePc' = "streak"
          /\ UNCHANGED <<toast, isSavingRating, localSaving>>

\* the POST to /api/user-stats answers with any status, or throws into the
\* empty catch around it: the result is not looked at
saveStatsDone(outcome) ==
  /\ savePc = "stats"
  /\ outcome \in {"ok", "notok", "throw"}
  /\ savePc' = "streak"
  /\ UNCHANGED <<now, status, toast, captureVars, entryVars, signedIn, generatedSummary,
                 generatedAt, isGenerating, isSavingRating, hoverRating,
                 selectedRating, localSaving, genPc, genSince, genFrom, genCount,
                 draftRange, saveText, saveRating, saveRow, summariesTable,
                 summaries, discarded, widgetVars, delayedVars, statsVars>>

\* fetchStreak resolves; finally-blocks of saveRatedSummary and handleSave
saveStreakDone ==
  /\ savePc = "streak"
  /\ savePc' = "idle"
  /\ isSavingRating' = FALSE
  /\ localSaving' = FALSE
  /\ UNCHANGED <<now, status, toast, captureVars, entryVars, signedIn, generatedSummary,
                 generatedAt, isGenerating, hoverRating, selectedRating, genPc,
                 genSince, genFrom, genCount, draftRange, saveText, saveRating, saveRow,
                 summariesTable, summaries, discarded, widgetVars,
                 delayedVars, statsVars>>

\* discardSummary, through the card's handleDiscard
handleDiscard ==
  /\ CardMounted
  /\ discarded' = discarded \cup {generatedSummary}
  /\ generatedSummary' = NoDraft
  /\ generatedAt' = 0
  /\ toast' = "Reflection discarded"
  /\ selectedRating' = 0
  /\ localSaving' = FALSE
  /\ UNCHANGED <<now, status, captureVars, entryVars, signedIn, isGenerating,
                 isSavingRating, hoverRating, genPc, genSince, genFrom, genCount,
                 draftRange, savePc, saveText, saveRating, saveRow,
                 summariesTable, summaries, widgetVars, delayedVars, statsVars>>

\* the 'Dismiss' link is never disabled
dismissLink == handleDiscard

\* the 'Discard' button is disabled while saving
discardButton == ~(localSaving \/ isSavingRating) /\ handleDiscard

QueryOutcomes == {"error", "empty", "rows"}
\* what the language model's endpoint may do with the API route's request
LlmReplies == {"unreachable", "notok", "content", "nochoices", "emptycontent"}

\* pages/api/generate-summary.ts as the page sees it: status 500 on a failed
\* or refused request, status 200 with `choices?.[0]?.message?.content ?? ''`
\* as the summary otherwise
handler(llm) ==
  CASE llm \in {"unreachable", "notok"} -> "notok"
    [] llm = "content" -> "ok"
    [] llm \in {"nochoices", "emptycontent"} -> "blank"

\* the page's fetch throws, or the route answers
FetchOutcomes == {"throw"} \cup {handler(l) : l \in LlmReplies}
InsertOutcomes == {"error", "row", "norow"}
RefetchOutcomes == {"ok", "error"}
StatsOutcomes == {"ok", "notok", "throw"}

NextSummary ==
  \/ toastExpire
  \/ generate24hSummary
  \/ \E o \in QueryOutcomes : generateQueryDone(o)
  \/ \E o \in FetchOutcomes : generateFetchDone(o)
  \/ \E n \in HoverInputs : setHoverRating(n)
  \/ \E n \in SelectInputs : setSelectedRating(n)
  \/ handleSave
  \/ saveAuthDone
  \/ \E o \in InsertOutcomes : saveInsertDone(o)
  \/ \E o \in RefetchOutcomes : saveRefetchDone(o)
  \/ \E o \in StatsOutcomes : saveStatsDone(o)
  \/ saveStreakDone
  \/ dismissLink
  \/ discardButton

\* the lifecycle at one instant: time decides no branch of it
SpecSummary == Init /\ [][NextSummary]_vars

\* every external call of the lifecycle eventually returns or fails: the
\* entries query, the summarizer request, getUser, the summaries insert, the
\* re-fetch, the streak request and the streak read
ExternalCallsReturn ==
  /\ WF_vars(\E o \in QueryOutcomes : generateQueryDone(o))
  /\ WF_vars(\E o \in FetchOutcomes : generateFetchDone(o))
  /\ WF_vars(saveAuthDone)
  /\ WF_vars(\E o \in InsertOutcomes : saveInsertDone(o))
  /\ WF_vars(\E o \in RefetchOutcomes : saveRefetchDone(o))
  /\ WF_vars(\E o \in StatsOutcomes : saveStatsDone(o))
  /\ WF_vars(saveStreakDone)

SpecSummaryLive == SpecSummary /\ ExternalCallsReturn

\* the lifecycle with the clock advancing between its steps
NextSummaryClock == Tick \/ NextSummary

SpecSummaryClock == Init /\ [][NextSummaryClock]_vars

\* saveRatedSummary called with any number, not through the SummaryCard
RatingInputs == 0..6

NextCommit ==
  \/ toastExpire
  \/ generate24hSummary
  \/ \E o \in QueryOutcomes : generateQueryDone(o)
  \/ \E o \in FetchOutcomes : generateFetchDone(o)
  \/ \E r \in RatingInputs : saveRatedSummary(r) /\ UNCHANGED localSaving
  \/ saveAuthDone
  \/ \E o \in InsertOutcomes : saveInsertDone(o)
  \/ \E o \in RefetchOutcomes : saveRefetchDone(o)
  \/ \E o \in StatsOutcomes : saveStatsDone(o)
  \/ saveStreakDone
  \/ dismissLink

SpecCommit == Init /\ [][NextCommit]_vars

(* ------------------------------- deletes ------------------------------- *)
\* rows the store holds from earlier visits
StoredEntries ==
  [i \in 1..MaxEntries |-> [id |-> i, content |-> <<"a">>, user_id |-> "user"]]
StoredSummaries ==
  [i \in 1..MaxRows |-> [summary_text |-> i, rating |-> 5,
                         range_start |-> DayMs, range_end |-> 2 * DayMs,
                         for_date |-> 2]]

\* the page of a signed-in user once the mount effect's fetchEntries and
\* fetchSummaries have filled the lists from the store
InitLoaded ==
  /\ now = 2 * DayMs
  /\ recogAvailable = FALSE
  /\ recState = "inactive"
  /\ startCalls = 0
  /\ holdingRef = FALSE
  /\ lastStartTimeRef = 0
  /\ isRecording = FALSE
  /\ interim = <<>>
  /\ finalText = <<>>
  /\ finals = <<>>
  /\ draftAtPress = <<>>
  /\ status = "none"
  /\ toast = "none"
  /\ signedIn = TRUE
  /\ generatedSummary = NoDraft
  /\ generatedAt = 0
  /\ isGenerating = FALSE
  /\ isSavingRating = FALSE
  /\ hoverRating = 0
  /\ selectedRating = 0
  /\ localSaving = FALSE
  /\ genPc = "idle"
  /\ genSince = 0
  /\ genFrom = NoDraft
  /\ genCount = 0
  /\ draftRange = [d \in 1..(MaxGen + 1) |-> 0]
  /\ savePc = "idle"
  /\ saveText = NoDraft
  /\ saveRating = 0
  /\ saveRow = NoRow
  /\ summariesTable = StoredSummaries
  /\ summaries = ListFromTable(StoredSummaries)
  /\ discarded = {}
  /\ entryCalls = <<>>
  /\ entriesTable = StoredEntries
  /\ entries = EntriesFromTable(StoredEntries)
  /\ entrySeq = MaxEntries
  /\ confirmTarget = NoTarget
  /\ deleteCalls = <<>>
  /\ ms_entry_input_rendered = FALSE
  /\ instPc = [i \in Instances |-> "unmounted"]
  /\ skipRef = [i \in Instances |-> FALSE]
  /\ shown = [i \in Instances |-> FALSE]
  /\ restartTimers = <<>>
  /\ voiceCalls = <<>>
  /\ statsRow = NoStats
  /\ statsCalls = <<>>

\* the variables of the summary lifecycle other than the table and the list
lifecycleRest == <<signedIn, generatedSummary, generatedAt, isGenerating,
                   isSavingRating, hoverRating, selectedRating, localSaving,
                   genPc, genSince, genFrom, genCount, draftRange, savePc,
                   saveText, saveRating, saveRow, discarded>>

WithoutEntry(L, id) == SelectSeq(L, LAMBDA r : r.id # id)
WithoutSummaryRow(T, id) == SelectSeq(T, LAMBDA r : r.summary_text # id)
WithoutSummary(L, id) == SelectSeq(L, LAMBDA x : x # id)

\* the bin button of a listed entry: the confirm modal opens
confirmDeleteEntry(entryId) ==
  /\ confirmTarget = NoTarget
  /\ \E k \in 1..Len(entries) : entries[k].id = entryId
  /\ confirmTarget' = [kind |-> "entry", id |-> entryId]
  /\ UNCHANGED <<now, status, toast, captureVars, summaryVars, entryCalls,
                 entriesTable, entries, entrySeq, deleteCalls, widgetVars,
                 delayedVars, statsVars>>

\* the bin button of a listed reflection: the confirm modal opens
confirmDeleteSummary(summaryId) ==
  /\ confirmTarget = NoTarget
  /\ \E k \in 1..Len(summaries) : summaries[k] = summaryId
  /\ confirmTarget' = [kind |-> "summary", id |-> summaryId]
  /\ UNCHANGED <<now, status, toast, captureVars, summaryVars, entryCalls,
                 entriesTable, entries, entrySeq, deleteCalls, widgetVars,
                 delayedVars, statsVars>>

\* the modal's Cancel
onCancel ==
  /\ confirmTarget # NoTarget
  /\ confirmTarget' = NoTarget
  /\ UNCHANGED <<now, status, toast, captureVars, summaryVars, entryCalls,
                 entriesTable, entries, entrySeq, deleteCalls, widgetVars,
                 delayedVars, statsVars>>

\* the modal's Confirm: the stored action runs up to its await of the
\* delete request, removing the item from the local list first
onConfirm ==
  /\ confirmTarget # NoTarget
  /\ Len(deleteCalls) < MaxCalls
  /\ confirmTarget' = NoTarget
  /\ deleteCalls' = Append(deleteCalls,
                           [kind |-> confirmTarget.kind,
                            id |-> confirmTarget.id, pc |-> "delete"])
  /\ IF confirmTarget.kind = "entry"
     THEN /\ entries' = WithoutEntry(entries, confirmTarget.id)
          /\ UNCHANGED summaries
     ELSE /\ summaries' = WithoutSummary(summaries, confirmTarget.id)
          /\ UNCHANGED entries
  /\ UNCHANGED <<now, status, toast, captureVars, lifecycleRest,
                 summariesTable, entryCalls, entriesTable, entrySeq,
                 widgetVars, delayedVars, statsVars>>

\* the entries delete answers: on an error the catch awaits fetchEntries
deleteEntryDone(i, outcome) ==
  /\ i \in 1..Len(deleteCalls)
  /\ deleteCalls[i].kind = "entry"
  /\ deleteCalls[i].pc = "delete"
  /\ UNCHANGED <<now, status, captureVars, summaryVars, entryCalls, entries,
                 entrySeq, confirmTarget, widgetVars, delayedVars, statsVars>>
  /\ IF outcome = "ok"
     THEN /\ entriesTable' = WithoutEntry(entriesTable, deleteCalls[i].id)
          /\ toast' = "Entry deleted"
          /\ deleteCalls' = RemoveAt(deleteCalls, i)
     ELSE /\ deleteCalls' = [deleteCalls EXCEPT ![i].pc = "refetch"]
          /\ UNCHANGED <<entriesTable, toast>>

\* the compensating fetchEntries answers (its getUser and select as one step)
deleteEntryRefetchDone(i, outcome) ==
  /\ i \in 1..Len(deleteCalls)
  /\ deleteCalls[i].kind = "entry"
  /\ deleteCalls[i].pc = "refetch"
  /\ entries' = (IF outcome = "ok" /\ signedIn
                 THEN EntriesFromTable(entriesTable) ELSE <<>>)
  /\ deleteCalls' = RemoveAt(deleteCalls, i)
  /\ UNCHANGED <<now, status, toast, captureVars, summaryVars, entryCalls,
                 entriesTable, entrySeq, confirmTarget, widgetVars,
                 delayedVars, statsVars>>

\* deleteSavedSummary's delete answers: on an error a toast, then fetchSummaries
deleteSavedSummaryDone(i, outcome) ==
  /\ i \in 1..Len(deleteCalls)
  /\ deleteCalls[i].kind = "summary"
  /\ deleteCalls[i].pc = "delete"
  /\ UNCHANGED <<now, status, captureVars, lifecycleRest, summaries,
                 entryCalls, entriesTable, entries, entrySeq, confirmTarget,
                 widgetVars, delayedVars, statsVars>>
  /\ IF outcome = "ok"
     THEN /\ summariesTable' = WithoutSummaryRow(summariesTable, deleteCalls[i].id)
          /\ toast' = "Reflection deleted"
          /\ deleteCalls' = RemoveAt(deleteCalls, i)
     ELSE /\ toast' = "Could not delete reflection"
          /\ deleteCalls' = [deleteCalls EXCEPT ![i].pc = "refetch"]
          /\ UNCHANGED summariesTable

\* the compensating fetchSummaries answers
deleteSummaryRefetchDone(i, outcome) ==
  /\ i \in 1..Len(deleteCalls)
  /\ deleteCalls[i].kind = "summary"
  /\ deleteCalls[i].pc = "refetch"
  /\ summaries' = (IF outcome = "ok" /\ signedIn
                   THEN ListFromTable(summariesTable) ELSE <<>>)
  /\ deleteCalls' = RemoveAt(deleteCalls, i)
  /\ UNCHANGED <<now, status, toast, captureVars, lifecycleRest,
                 summariesTable, entryCalls, entriesTable, entries, entrySeq,
                 confirmTarget, widgetVars, delayedVars, statsVars>>

DeleteOutcomes == {"ok", "error"}
EntryIds == 1..MaxEntries
SummaryIds == 1..MaxRows

NextDelete ==
  \/ toastExpire
  \/ \E id \in EntryIds : confirmDeleteEntry(id)
  \/ \E id \in SummaryIds : confirmDeleteSummary(id)
  \/ onCancel
  \/ onConfirm
  \/ \E i \in CallSlots, o \in DeleteOutcomes : deleteEntryDone(i, o)
  \/ \E i \in CallSlots, o \in EntryRefetchOutcomes : deleteEntryRefetchDone(i, o)
  \/ \E i \in CallSlots, o \in DeleteOutcomes : deleteSavedSummaryDone(i, o)
  \/ \E i \in CallSlots, o \in RefetchOutcomes : deleteSummaryRefetchDone(i, o)

SpecDelete == InitLoaded /\ [][NextDelete]_vars

(* ------------------- saves, deletes and re-fetches --------------------- *)
\* the onAuthStateChange callback: fetchEntries() and fetchSummaries() are
\* called without await; each answers in this step (getUser and select)
onAuthStateChange(oe, os) ==
  /\ entries' = (IF oe = "ok" /\ signedIn
                 THEN EntriesFromTable(entriesTable) ELSE <<>>)
  /\ summaries' = (IF os = "ok" /\ signedIn
                   THEN ListFromTable(summariesTable) ELSE <<>>)
  /\ UNCHANGED <<now, status, toast, captureVars, lifecycleRest,
                 summariesTable, entryCalls, entriesTable, entrySeq,
                 deleteVars, widgetVars, delayedVars, statsVars>>

\* the texts typed in a session of saves and deletes
SavedTexts == {<<"a">>, <<"b">>}

\* every store call succeeds: inserts answer with or without the row,
\* deletes and selects answer without an error
NextQuiescent ==
  \/ \E t \in SavedTexts : setFinalText(t)
  \/ saveButton
  \/ \E i \in CallSlots : entryAuthDone(i)
  \/ \E i \in CallSlots, o \in {"row", "norow"} : entryInsertDone(i, o)
  \/ \E i \in CallSlots : entryRefetchDone(i, "ok")
  \/ \E id \in EntryIds : confirmDeleteEntry(id)
  \/ onCancel
  \/ onConfirm
  \/ \E i \in CallSlots : deleteEntryDone(i, "ok")
  \/ onAuthStateChange("ok", "ok")

SpecQuiescent == Init /\ [][NextQuiescent]_vars

(* ----------------------- EntryInput singleton guard -------------------- *)
widgetRest == <<now, status, toast, captureVars, summaryVars, entryVars,
                delayedVars, statsVars>>

\* an EntryInput instance mounts: useRef(false), then its first render, whose
\* `if (skipRef.current) return null` reads the initial false
mountEntryInput(i) ==
  /\ instPc[i] = "unmounted"
  /\ instPc' = [instPc EXCEPT ![i] = "rendered"]
  /\ skipRef' = [skipRef EXCEPT ![i] = FALSE]
  /\ shown' = [shown EXCEPT ![i] = ~skipRef'[i]]
  /\ UNCHANGED <<ms_entry_input_rendered, widgetRest>>

\* the guard's effect, run once after the instance's first commit
guardEffect(i) ==
  /\ instPc[i] = "rendered"
  /\ instPc' = [instPc EXCEPT ![i] = "mounted"]
  /\ IF ms_entry_input_rendered
     THEN /\ skipRef' = [skipRef EXCEPT ![i] = TRUE]
          /\ UNCHANGED ms_entry_input_rendered
     ELSE /\ ms_entry_input_rendered' = TRUE
          /\ UNCHANGED skipRef
  /\ UNCHANGED <<shown, widgetRest>>

\* a later render of a mounted instance (new props or state)
renderEntryInput(i) ==
  /\ instPc[i] = "mounted"
  /\ shown' = [shown EXCEPT ![i] = ~skipRef[i]]
  /\ UNCHANGED <<ms_entry_input_rendered, instPc, skipRef, widgetRest>>

\* the instance unmounts: the effect's cleanup exists only when the effect
\* took the flag
unmountEntryInput(i) ==
  /\ instPc[i] = "mounted"
  /\ instPc' = [instPc EXCEPT ![i] = "unmounted"]
  /\ shown' = [shown EXCEPT ![i] = FALSE]
  /\ skipRef' = [skipRef EXCEPT ![i] = FALSE]
  /\ ms_entry_input_rendered' = (IF skipRef[i] THEN ms_entry_input_rendered
                                 ELSE FALSE)
  /\ UNCHANGED widgetRest

NextWidget ==
  \/ \E i \in Instances : mountEntryInput(i)
  \/ \E i \in Instances : guardEffect(i)
  \/ \E i \in Instances : renderEntryInput(i)
  \/ \E i \in Instances : unmountEntryInput(i)

SpecWidget == Init /\ [][NextWidget]_vars

(* ------------- second Home: restart through a 150 ms timer ------------- *)
delayedRest == <<now, summaryVars, widgetVars, statsVars, deleteVars,
                 entryCalls, lastStartTimeRef, draftAtPress, recogAvailable>>

\* startRecording of the second Home: its catch leaves holdingRef.current set
startRecording2 ==
  /\ UNCHANGED <<delayedRest, restartTimers, voiceCalls, entriesTable, entries,
                 entrySeq>>
  /\ IF ~recogAvailable
     THEN /\ status' = "Voice not supported in this browser."
          /\ UNCHANGED <<toast, recState, startCalls, holdingRef, isRecording,
                         interim, finalText, finals>>
     ELSE /\ holdingRef' = TRUE
          /\ startCalls' = (startCalls + 1) % StartWrap
          /\ IF StartThrows
             THEN /\ status' = "Mic error"
                  /\ toast' = "Mic error"
                  /\ UNCHANGED <<recState, isRecording, interim, finalText,
                                 finals>>
             ELSE /\ recState' = "active"
                  /\ isRecording' = TRUE
                  /\ interim' = <<>>
                  /\ finalText' = <<>>
                  /\ finals' = <<>>
                  /\ status' = "Recording..."
                  /\ UNCHANGED toast

\* stopRecording of the second Home, up to its await of saveTextEntry's
\* getUser; every timer armed so far has now seen a stopRecording
stopRecording2 ==
  LET text == Trim(finalText \o (IF interim # <<>> THEN Space \o interim ELSE <<>>))
  IN /\ UNCHANGED <<delayedRest, startCalls, toast, entriesTable, entries,
                    entrySeq>>
     /\ holdingRef' = FALSE
     /\ recState' = AfterStop
     /\ isRecording' = FALSE
     /\ interim' = <<>>
     /\ finalText' = <<>>
     /\ finals' = <<>>
     /\ restartTimers' = [k \in 1..Len(restartTimers) |-> TRUE]
     /\ IF text = <<>>
        THEN /\ status' = "No speech captured."
             /\ UNCHANGED voiceCalls
        ELSE /\ Len(voiceCalls) < MaxVoiceSaves
             /\ voiceCalls' = Append(voiceCalls, [pc |-> "auth", text |-> text])
             /\ UNCHANGED status

\* r.onerror of the second Home: the holding intent is left as it is
onerror2 ==
  /\ recState \in {"active", "stopping"}
  /\ recState' = "errored"
  /\ status' = "Recognition error"
  /\ toast' = "Recognition error"
  /\ isRecording' = FALSE
  /\ UNCHANGED <<delayedRest, startCalls, holdingRef, interim, finalText,
                 finals, restartTimers, voiceCalls, entriesTable, entries,
                 entrySeq>>

\* r.onend of the second Home: while held, setTimeout(..., 150) is armed
onend2 ==
  /\ recState \in {"active", "stopping", "errored"}
  /\ recState' = "inactive"
  /\ IF holdingRef
     THEN /\ Len(restartTimers) < MaxTimers
          /\ restartTimers' = Append(restartTimers, FALSE)
          /\ UNCHANGED isRecording
     ELSE /\ isRecording' = FALSE
          /\ UNCHANGED restartTimers
  /\ UNCHANGED <<delayedRest, status, toast, startCalls, holdingRef, interim,
                 finalText, finals, voiceCalls, entriesTable, entries,
                 entrySeq>>

\* the timer's callback: try { recogRef.current?.start() } catch {}
restartTimer(i) ==
  /\ i \in 1..Len(restartTimers)
  /\ restartTimers' = RemoveAt(restartTimers, i)
  /\ startCalls' = (startCalls + 1) % StartWrap
  /\ recState' = (IF StartThrows THEN recState ELSE "active")
  /\ UNCHANGED <<delayedRest, status, toast, holdingRef, isRecording, interim,
                 finalText, finals, voiceCalls, entriesTable, entries,
                 entrySeq>>

\* the second Home's saveTextEntry after getUser; when it returns early,
\* stopRecording resumes with setStatus('Saved voice entry.')
voiceAuthDone(i) ==
  /\ i \in 1..Len(voiceCalls)
  /\ voiceCalls[i].pc = "auth"
  /\ IF ~signedIn
     THEN /\ toast' = "Please sign in to save an entry."
          /\ status' = "Saved voice entry."
          /\ voiceCalls' = RemoveAt(voiceCalls, i)
     ELSE /\ voiceCalls' = [voiceCalls EXCEPT ![i].pc = "insert"]
          /\ UNCHANGED <<toast, status>>
  /\ UNCHANGED <<delayedRest, captureVars, restartTimers, entriesTable,
                 entries, entrySeq>>

\* its insert answers; on success fetchEntries() is called without await and
\* stopRecording resumes
voiceInsertDone(i, outcome) ==
  /\ i \in 1..Len(voiceCalls)
  /\ voiceCalls[i].pc = "insert"
  /\ status' = "Saved voice entry."
  /\ IF outcome = "ok"
     THEN /\ entrySeq < MaxEntries
          /\ entrySeq' = entrySeq + 1
          /\ entriesTable' = Append(entriesTable,
                                    [id |-> entrySeq + 1,
                                     content |-> voiceCalls[i].text,
                                     user_id |-> "user"])
          /\ toast' = "Saved entry"
          /\ voiceCalls' = [voiceCalls EXCEPT ![i].pc = "fetch"]
     ELSE /\ toast' = "Save failed"
          /\ voiceCalls' = RemoveAt(voiceCalls, i)
          /\ UNCHANGED <<entriesTable, entrySeq>>
  /\ UNCHANGED <<delayedRest, captureVars, restartTimers, entries>>

\* the unawaited fetchEntries of the second Home answers
voiceFetchDone(i, outcome) ==
  /\ i \in 1..Len(voiceCalls)
  /\ voiceCalls[i].pc = "fetch"
  /\ voiceCalls' = RemoveAt(voiceCalls, i)
  /\ entries' = (IF outcome = "ok" THEN EntriesFromTable(entriesTable)
                 ELSE entries)
  /\ UNCHANGED <<delayedRest, status, toast, captureVars, restartTimers,
                 entriesTable, entrySeq>>

TimerSlots == 1..MaxTimers
VoiceOutcomes == {"ok", "error"}

NextDelayed ==
  \/ speechEffect
  \/ startRecording2
  \/ stopRecording2
  \/ \E f \in VoiceFinals : onresult(<<>>, f)
  \/ onerror2
  \/ onend2
  \/ \E i \in TimerSlots : restartTimer(i)
  \/ \E i \in CallSlots : voiceAuthDone(i)
  \/ \E i \in CallSlots, o \in VoiceOutcomes : voiceInsertDone(i, o)
  \/ \E i \in CallSlots, o \in VoiceOutcomes : voiceFetchDone(i, o)

SpecDelayed == Init /\ [][NextDelayed]_vars

(* --------------------- the user-stats API route ------------------------ *)
\* the for_date values posted: 'YYYY-MM-DD' strings, as days since an epoch
Days == 0..MaxDay

\* a request body without for_date
NoDate == -1

\* new Date(s).getTime() of a date-only string: UTC midnight of that day
DateMs(d) == d * DayMs

\* the handler's newStreak with the same-day branch resetting the streak
NewStreak_ResetsSameDay(existing, for_date) ==
  IF existing = NoStats \/ existing.last_summary_date = NoDate
  THEN 1
  ELSE LET diffDays == (DateMs(for_date) - DateMs(existing.last_summary_date))
                         \div DayMs
       IN IF diffDays = 1
          THEN (IF existing.streak_count = 0 THEN 0
                ELSE existing.streak_count) + 1
          ELSE 1

\* the handler's newStreak: Math.floor of the difference in days
NewStreak(existing, for_date) ==
  IF existing = NoStats \/ existing.last_summary_date = NoDate
  THEN 1
  ELSE LET diffDays == (DateMs(for_date) - DateMs(existing.last_summary_date))
                         \div DayMs
       IN IF diffDays = 1
          THEN (IF existing.streak_count = 0 THEN 0
                ELSE existing.streak_count) + 1
          ELSE IF diffDays = 0
               THEN existing.streak_count
               ELSE 1

statsRest == <<now, status, toast, captureVars, summaryVars, entryVars,
               widgetVars, delayedVars>>

\* a POST reaches the handler: 400 without for_date, else the select is sent
userStatsHandler(for_date) ==
  /\ IF for_date = NoDate
     THEN UNCHANGED statsCalls
     ELSE /\ Len(statsCalls) < MaxCalls
          /\ statsCalls' = Append(statsCalls,
                                  [pc |-> "select", for_date |-> for_date,
                                   existing |-> NoStats, newStreak |-> 0])
  /\ UNCHANGED <<statsRest, statsRow>>

\* the select answers: an error other than 'no rows' is thrown (500); else
\* newStreak is computed and the upsert is sent
userStatsSelectDone(i, outcome) ==
  /\ i \in 1..Len(statsCalls)
  /\ statsCalls[i].pc = "select"
  /\ statsCalls' = (IF outcome = "error" THEN RemoveAt(statsCalls, i)
                    ELSE [statsCalls EXCEPT
                            ![i] = [pc |-> "upsert", for_date |-> @.for_date,
                                    existing |-> statsRow,
                                    newStreak |-> NewStreak(statsRow,
                                                            @.for_date)]])
  /\ UNCHANGED <<statsRest, statsRow>>

\* the upsert answers: the row now holds for_date and newStreak (200), or
\* the error is thrown (500)
userStatsUpsertDone(i, outcome) ==
  /\ i \in 1..Len(statsCalls)
  /\ statsCalls[i].pc = "upsert"
  /\ statsCalls' = RemoveAt(statsCalls, i)
  /\ statsRow' = (IF outcome = "ok"
                  THEN [last_summary_date |-> statsCalls[i].for_date,
                        streak_count |-> statsCalls[i].newStreak]
                  ELSE statsRow)
  /\ UNCHANGED statsRest

StoreOutcomes == {"ok", "error"}

NextStats ==
  \/ \E d \in Days \cup {NoDate} : userStatsHandler(d)
  \/ \E i \in CallSlots, o \in StoreOutcomes : userStatsSelectDone(i, o)
  \/ \E i \in CallSlots, o \in StoreOutcomes : userStatsUpsertDone(i, o)

SpecStats == Init /\ [][NextStats]_vars

(* ======================= capture session claims ======================== *)

\* C1 (restart invariant): every recognizer end handled while the holding
\* intent is true leaves the session Recording with the intent still true,
\* the recognizer started again (so later fragments are delivered), and the
\* accumulated final text untouched.
C1_RestartInvariant ==
  [][(onend /\ holdingRef) =>
       (holdingRef' /\ isRecording' /\ recState' = "active"
          /\ finalText' = finalText)]_vars

\* C2 (intent dominance): stopRecording leaves the intent false and the
\* session Idle; and while the intent is false, no step other than
\* startRecording invokes the recognizer's start primitive, sets the intent
\* again or makes an Idle session Recording.
C2_IntentDominance ==
  [][/\ stopRecording => (~holdingRef' /\ ~isRecording')
     /\ (~holdingRef /\ ~startRecording) =>
          (/\ ~holdingRef'
           /\ startCalls' = startCalls
           /\ (~isRecording => ~isRecording')
           /\ recState' # "active" \/ recState = "active")]_vars

\* stopRecording produced a transcript, the recognizer ended afterwards and
\* the debounce window had passed, yet the session is Idle.
C2_Witness ==
  /\ status = "Transcription ready"
  /\ ~holdingRef /\ ~isRecording
  /\ recState = "inactive"
  /\ now - lastStartTimeRef > DebounceMs

\* C11 (recognizer error is fail-safe): the error handler leaves the intent
\* false and the session Idle and raises a notification; the end event that
\* follows the error finds the intent false, does not invoke the start
\* primitive and leaves the recognizer inactive and the session Idle.
C11_ErrorFailSafe ==
  [][/\ onerror =>
          (~holdingRef' /\ ~isRecording' /\ toast' = "Recognition error")
     /\ (recState = "errored" /\ onend) =>
          (/\ recState' = "inactive"
           /\ startCalls' = startCalls
           /\ ~holdingRef' /\ ~isRecording')]_vars

\* the recognizer failed during a recording, its end event has been handled
\* after the debounce window had passed, and the session is Idle
C11_Witness ==
  /\ status = "Recording..."
  /\ toast = "Recognition error"
  /\ recState = "inactive"
  /\ ~holdingRef /\ ~isRecording
  /\ now - lastStartTimeRef > DebounceMs

\* C12 (restart debounce): the end handler invokes the start primitive only
\* when more than 1000 ms have passed since the start it last recorded, and
\* every invocation of the start primitive records its time.
C12_RestartDebounce ==
  [][/\ (onend /\ startCalls' # startCalls) =>
          (now - lastStartTimeRef > DebounceMs /\ lastStartTimeRef' = now)
     /\ (startCalls' # startCalls) => lastStartTimeRef' = now]_vars

\* the recognizer ended exactly 1000 ms after its start while the button was
\* held: the end handler ran and did not start it again
C12_Witness ==
  /\ holdingRef /\ isRecording
  /\ recState = "inactive"
  /\ now - lastStartTimeRef = DebounceMs

\* C13 (no concurrent recordings): startRecording invoked while the session
\* is Recording leaves the intent true, the session Recording, the final
\* text and the interim buffer as they were, and the recognizer as it was.
C13_NoConcurrentRecordings ==
  [][(startRecording /\ isRecording) =>
       (/\ holdingRef' /\ isRecording'
        /\ finalText' = finalText /\ interim' = interim
        /\ recState' = recState)]_vars

\* the fragments of a sequence joined by single spaces, in order
RECURSIVE JoinSpaces(_)
JoinSpaces(fs) ==
  IF fs = <<>> THEN <<>>
  ELSE IF Len(fs) = 1 THEN fs[1]
  ELSE fs[1] \o Space \o JoinSpaces(Tail(fs))

\* C14 (merge correctness and order): while only the recognizer writes the
\* text of a session, the accumulated final text is the final fragments
\* delivered since the session's start, in delivery order, joined by single
\* spaces; a fragment delivered as interim and then as final is in it once.
C14_MergeInOrder == finalText = JoinSpaces(finals)

\* two final fragments have been delivered in one session, the second of
\* them after it had been delivered as an interim fragment
C14_Witness ==
  /\ isRecording
  /\ finals = << <<"a">>, <<"b">> >>
  /\ finalText = <<"a", " ", "b">>
  /\ interim = <<>>

\* the text stopRecording hands over: final text, then the interim text
\* after a space when there is any, trimmed
HandedOver ==
  IF interim = <<>> THEN Trim(finalText)
  ELSE Trim(finalText \o Space \o interim)

\* C15 (stop from Recording): stopRecording invoked while Recording leaves
\* the intent false, the recognizer asked to stop, the session Idle and the
\* interim buffer empty; the input receives the trimmed final text followed
\* by the interim text; when that text is empty the status reads 'No speech
\* captured.', the input keeps what it held and no save is started.
C15_StopHandsOver ==
  [][(stopRecording /\ isRecording) =>
       (/\ ~holdingRef' /\ ~isRecording'
        /\ recState' # "active"
        /\ interim' = <<>>
        /\ UNCHANGED entryVars
        /\ IF HandedOver = <<>>
           THEN /\ status' = "No speech captured."
                /\ finalText' = finalText
                /\ toast' = toast
           ELSE /\ finalText' = HandedOver
                /\ status' = "Transcription ready")]_vars

\* a recording was stopped with final text "a" and interim text "b" pending
C15_Witness ==
  /\ status = "Transcription ready"
  /\ finalText = <<"a", " ", "b">>
  /\ interim = <<>>
  /\ ~holdingRef /\ ~isRecording
  /\ recState = "stopping"

\* C16 (capability errors): a press with no recognizer, a press from Idle
\* whose start primitive throws, and a recognizer error that follows a
\* start before any fragment each leave a notification, the session Idle,
\* the intent false, and in the input the text it held at the press.
C16_CapabilityErrors ==
  [][/\ (startRecording /\ ~recogAvailable) =>
          (/\ toast' = "Speech API not available in this browser"
           /\ ~holdingRef' /\ ~isRecording'
           /\ finalText' = finalText)
     /\ (startRecording /\ recogAvailable /\ StartThrows /\ ~isRecording) =>
          (/\ toast' = "Mic error"
           /\ ~holdingRef' /\ ~isRecording'
           /\ finalText' = finalText)
     /\ (onerror /\ holdingRef /\ finals = <<>> /\ interim = <<>>) =>
          (/\ toast' = "Recognition error"
           /\ ~holdingRef' /\ ~isRecording'
           /\ finalText' = draftAtPress)]_vars

\* the transcript of the running cycle: its final fragments joined by
\* spaces, then the pending interim text, trimmed
CycleTranscript ==
  IF interim = <<>> THEN Trim(JoinSpaces(finals))
  ELSE Trim(JoinSpaces(finals) \o Space \o interim)

\* C26 (transcript replaces the draft): when stopRecording ends a recording
\* during which nothing was typed and whose transcript is not empty, the
\* input holds exactly that transcript afterwards: the fragments delivered
\* since the press and the pending interim text, and none of the text the
\* input held before the press.
C26_TranscriptReplacesDraft ==
  [][(stopRecording /\ isRecording /\ CycleTranscript # <<>>) =>
       finalText' = CycleTranscript]_vars

\* the input held "b" at the press; after the cycle it holds the transcript "a"
C26_Witness ==
  /\ status = "Transcription ready"
  /\ draftAtPress = <<"b">>
  /\ finalText = <<"a">>
  /\ ~isRecording /\ ~holdingRef

\* C31 (intent implies Recording): in every reachable state of the capture
\* session the holding intent being true implies that isRecording is true.
C31_IntentImpliesRecording == holdingRef => isRecording

\* the intent is held while Recording, in a session started or restarted
\* after the clock advanced
C31_Witness ==
  /\ holdingRef
  /\ isRecording
  /\ recState = "active"
  /\ lastStartTimeRef > 2 * DayMs

\* C33 (late fragments): once stopRecording() has placed the combined
\* transcript in the input, recognizer results delivered before the
\* recognizer's stop completes do not change the input's text.
C33_LateFragmentsIgnored ==
  [][((\E i \in InterimTexts, f \in FinalTexts : onresult(i, f))
        /\ recState = "stopping" /\ ~isRecording
        /\ status = "Transcription ready")
       => finalText' = finalText]_vars

\* C36 (a silent recording keeps the draft): a hold-to-record cycle during
\* which no fragment is received leaves the input holding the text it held
\* before the press.
C36_SilentRecordingKeepsDraft ==
  [][(stopRecording /\ isRecording /\ finals = <<>> /\ interim = <<>>)
       => finalText' = draftAtPress]_vars

\* C30 (stop while Idle): stopRecording() invoked while the session is not
\* Recording is a no-op: the session state, the holding intent, the input's
\* text and the status line are as before, and no notification is raised.
C30_StopWhileIdleNoOp ==
  [][(stopRecording /\ ~isRecording) =>
       UNCHANGED <<isRecording, holdingRef, finalText, status, toast>>]_vars

(* ========================= entry commit claims ========================= *)
InsertsInFlight(C) == {j \in 1..Len(C) : C[j].pc = "insert"}

\* C17 (entry commit guard): a saveTextEntry whose text trims to nothing, or
\* that finds no signed-in user, ends at its guard: it raises a
\* notification, sends no insert, adds no row, and leaves the input's text
\* as it was; every insert in flight carries a non-empty trimmed content.
C17_EntryCommitGuard ==
  [][/\ \A i \in 1..Len(entryCalls) :
          (entryAuthDone(i)
             /\ (~signedIn \/ Trim(entryCalls[i].text) = <<>>)) =>
            (/\ toast' \in {"Please sign in to save an entry.",
                            "Cannot save empty entry."}
             /\ Len(entryCalls') = Len(entryCalls) - 1
             /\ Cardinality(InsertsInFlight(entryCalls')) =
                  Cardinality(InsertsInFlight(entryCalls))
             /\ entriesTable' = entriesTable
             /\ finalText' = finalText)
     /\ \A j \in InsertsInFlight(entryCalls') :
          /\ signedIn
          /\ entryCalls'[j].content # <<>>
          /\ entryCalls'[j].content = Trim(entryCalls'[j].content)]_vars

\* 'Save transcription' was pressed on an input holding one space: the
\* guard answered, nothing was inserted and the input still holds the space
C17_Witness ==
  /\ signedIn
  /\ toast = "Cannot save empty entry."
  /\ finalText = <<" ">>
  /\ entryCalls = <<>>
  /\ entriesTable = <<>>

\* C18 (entry commit ordering): saveTextEntry clears the input only in a
\* step at which the row it inserted is in the table; a failed insert
\* leaves the input's text and the table as they were and raises 'Save
\* failed'; no earlier step of saveTextEntry touches the input.
C18_EntryCommitOrdering ==
  [][\A i \in 1..Len(entryCalls) :
       /\ entryInsertDone(i, "error") =>
            (/\ finalText' = finalText
             /\ entriesTable' = entriesTable
             /\ toast' = "Save failed")
       /\ (entryAuthDone(i) \/ entryInsertDone(i, "norow")) =>
            finalText' = finalText
       /\ (entryInsertDone(i, "row") \/ entryRefetchDone(i, "ok")
             \/ entryRefetchDone(i, "error")) =>
            (/\ finalText' = <<>>
             /\ \E k \in 1..Len(entriesTable') :
                  entriesTable'[k].content = entryCalls[i].content)]_vars

\* an insert of "b" failed: the input still holds "b", nothing was stored
C18_Witness ==
  /\ toast = "Save failed"
  /\ finalText = <<"b">>
  /\ entryCalls = <<>>
  /\ entriesTable = <<>>

\* C34 (no typed text lost at acknowledgement): text entered into the input
\* while a saveTextEntry insert is in flight is still there after the insert
\* is acknowledged; the acknowledgement removes only the text that was saved.
C34_TypedTextKeptAtAck ==
  [][\A i \in 1..Len(entryCalls) :
       (entryInsertDone(i, "row") /\ finalText # entryCalls[i].text)
         => finalText' = finalText]_vars

\* C35 (no duplicate entry from a repeated Save): two Save requests for the
\* same text, the second issued while the first insert is still pending,
\* produce at most one persisted entry.  Under SpecRepeat the input is
\* cleared by the first acknowledgement and nothing is typed afterwards, so
\* two rows can only come from such a pair of requests.
C35_NoDuplicateEntry ==
  \A k, l \in 1..Len(entriesTable) :
    k # l => entriesTable[k].content # entriesTable[l].content

\* C37 (quiescent consistency of the entries list): when the store calls of
\* saves, confirmed deletes and re-fetches all succeed, then once no entry
\* operation is pending the local list holds exactly the signed-in user's
\* persisted entries.
C37_QuiescentConsistency ==
  (signedIn /\ entryCalls = <<>> /\ deleteCalls = <<>>)
    => entries = EntriesFromTable(entriesTable)

\* C27 (exclusive ownership of the draft): typing while the session is
\* Recording leaves the input's text as it was.
C27_ExclusiveOwnership ==
  [][((\E t \in TypedTexts : setFinalText(t)) /\ isRecording) =>
       finalText' = finalText]_vars

\* C28 (entries come only from explicit non-empty commits): every row of
\* the entries table has a non-empty trimmed content and the user's id; the
\* table grows only in a step of saveTextEntry's insert; a saveTextEntry
\* starts only in a step of one of the two Save buttons; stopRecording
\* starts no save and inserts nothing.
C28_EntriesOnlyFromCommits ==
  [][/\ \A k \in 1..Len(entriesTable') :
          /\ entriesTable'[k].content # <<>>
          /\ entriesTable'[k].content = Trim(entriesTable'[k].content)
          /\ entriesTable'[k].user_id = "user"
     /\ (entriesTable' # entriesTable) =>
          \E i \in 1..Len(entryCalls), o \in {"row", "norow"} :
            entryInsertDone(i, o)
     /\ (Len(entryCalls') > Len(entryCalls)) =>
          (saveButton \/ saveTranscriptionButton)
     /\ stopRecording => UNCHANGED <<entryCalls, entriesTable>>]_vars

\* a transcript was recorded, then saved with a Save button: the row holds
\* it and the input is cleared
C28_Witness ==
  /\ status = "Transcription ready"
  /\ Len(entriesTable) = 1
  /\ entriesTable[1].content = <<"a", " ", "a">>
  /\ entryCalls = <<>>
  /\ finalText = <<>>

(* ====================== summary lifecycle claims ======================= *)

\* rows of a summaries table T that hold the draft d
RowsIn(T, d) == {i \in DOMAIN T : T[i].summary_text = d}
RowsOf(d) == RowsIn(summariesTable, d)

\* C3 (no re-entrant generation): while a generated draft is previewed no
\* generation is in flight, so no further entries query or summarizer
\* request is running that could replace the draft.
C3_NoReentrantGeneration ==
  generatedSummary # NoDraft => (genPc = "idle" /\ ~isGenerating)

\* C4 (commit range): every row of the summaries table carries the range of
\* the entries query that produced its draft: range_start is that query's
\* `since` and range_end the instant 24 hours after it.
C4_CommitRange ==
  \A i \in DOMAIN summariesTable :
    LET row == summariesTable[i]
    IN /\ row.range_start = draftRange[row.summary_text]
       /\ row.range_end = draftRange[row.summary_text] + DayMs

C6_UnsetRatingRejected ==
  [][(handleSave /\ selectedRating = 0 /\ hoverRating = 0) =>
       (savePc' = "idle" /\ ~isSavingRating')]_vars

\* C7 (discard leaves no trace): no row of the summaries table holds a draft
\* the user has discarded.
C7_DiscardLeavesNoTrace ==
  \A i \in DOMAIN summariesTable :
    summariesTable[i].summary_text \notin discarded

\* C8 (exactly-once commit): after every step each draft is held by at most
\* one row of the summaries table, and the step that acknowledges a commit
\* leaves exactly one row holding the committed draft.
C8_ExactlyOnceCommit ==
  [][/\ \A d \in 1..genCount' : Cardinality(RowsIn(summariesTable', d)) <= 1
     /\ (savePc = "insert" /\ savePc' \in {"stats", "refetch"}) =>
          Cardinality(RowsIn(summariesTable', saveText)) = 1]_vars

\* the only draft generated failed to save once and was then committed by a
\* second 'Save Reflection'
C8_Witness ==
  /\ genCount = 1 /\ discarded = {}
  /\ toast = "Could not save reflection"
  /\ generatedSummary = NoDraft
  /\ Cardinality(RowsOf(1)) = 1

\* C9 (no unrated saved summary): every row of the summaries table has a
\* rating that is an integer in 1..5.
C9_NoUnratedSummary ==
  \A i \in DOMAIN summariesTable : summariesTable[i].rating \in Stars

\* a row saved with no star selected or hovered (rating defaulted) and a row
\* saved with a selected star
C9_Witness ==
  /\ \E i \in DOMAIN summariesTable : summariesTable[i].rating = 5
  /\ \E i \in DOMAIN summariesTable : summariesTable[i].rating = 1

GenerationErrors == {"Generation failed", "Couldn't generate reflection right now"}

\* C19 (generation failure): when the entries query fails, the summarizer
\* request throws or the route answers with a non-success status, generate
\* raises an error notification, and afterwards no draft is previewed and
\* the generating indicator is off (the lifecycle is Empty).
C19_GenerationFailure ==
  [][(generateQueryDone("error") \/ generateFetchDone("throw")
        \/ generateFetchDone("notok")) =>
       (/\ toast' \in GenerationErrors
        /\ generatedSummary' = NoDraft
        /\ ~isGenerating'
        /\ genPc' = "idle")]_vars

\* C20 (malformed summarizer output): when the language model's reply has
\* no choices or an empty content, generate raises an error notification,
\* not 'Reflection ready', and no new draft is previewed.
C20_MalformedReplyFails ==
  [][\A l \in {"nochoices", "emptycontent"} :
       generateFetchDone(handler(l)) =>
         (/\ toast' \in GenerationErrors
          /\ toast' # "Reflection ready"
          /\ generatedSummary' \in {NoDraft, generatedSummary})]_vars

\* C21 (empty window): when the entries query returns no rows, generate
\* raises 'No entries in the past 24 hours', sends no summarizer request,
\* and afterwards no draft is previewed and the generating indicator is off
\* (the lifecycle is Empty).
C21_EmptyWindow ==
  [][generateQueryDone("empty") =>
       (/\ toast' = "No entries in the past 24 hours"
        /\ genPc' = "idle"
        /\ generatedSummary' = NoDraft
        /\ ~isGenerating')]_vars

\* C22 (streak update is fire-and-forget): whatever the streak request and
\* the streak read that follow an acknowledged insert do, the step that
\* handles them leaves the table, the local list and the draft state as
\* they were and raises no notification; the table holds a row, and a
\* draft in preview, if any, is not one that the table holds.
C22_StreakFireAndForget ==
  [][((\E o \in StatsOutcomes : saveStatsDone(o)) \/ saveStreakDone) =>
       (/\ UNCHANGED <<summariesTable, summaries, generatedSummary,
                       generatedAt, toast>>
        /\ summariesTable' # <<>>
        /\ RowsIn(summariesTable', generatedSummary') = {}
        /\ (saveStreakDone => (~isSavingRating' /\ savePc' = "idle")))]_vars

\* the streak request has been handled after a commit: the row is stored
\* and listed, no draft is previewed
C22_Witness ==
  /\ savePc = "streak"
  /\ Len(summariesTable) = 1
  /\ summaries = <<summariesTable[1].summary_text>>
  /\ generatedSummary = NoDraft

\* C23 (no hung indicator): when every external call eventually returns or
\* fails, a generating indicator that is on is eventually off, and a saving
\* indicator that is on is eventually off.
C23_NoHungIndicator ==
  /\ isGenerating ~> ~isGenerating
  /\ isSavingRating ~> ~isSavingRating

\* a generation that failed and a commit that failed have both ended with
\* their indicators off
C23_Witness ==
  /\ toast = "Could not save reflection"
  /\ generatedSummary # NoDraft
  /\ ~isGenerating /\ ~isSavingRating
  /\ genPc = "idle" /\ savePc = "idle"

\* C24 (stale generation result): a summarizer reply installs a draft only
\* when the lifecycle is Generating for that call: the call was made with
\* no draft in preview and none is in preview when the reply arrives.
C24_StaleResultDropped ==
  [][generateFetchDone("ok") =>
       (genFrom = NoDraft /\ generatedSummary = NoDraft)]_vars

\* C25 (optimistic delete with rollback): the confirmed delete removes the
\* item from the local list in the same step; a failed backing delete is
\* followed by a re-fetch; when the re-fetch has answered, the local list
\* is the store's content and holds the item again.
C25_OptimisticDeleteRollback ==
  [][/\ onConfirm =>
          (/\ \A k \in 1..Len(entries') :
                ~(confirmTarget.kind = "entry" /\ entries'[k].id = confirmTarget.id)
           /\ \A k \in 1..Len(summaries') :
                ~(confirmTarget.kind = "summary" /\ summaries'[k] = confirmTarget.id))
     /\ \A i \in 1..Len(deleteCalls) :
          /\ (deleteEntryDone(i, "error") \/ deleteSavedSummaryDone(i, "error")) =>
               (/\ Len(deleteCalls') = Len(deleteCalls)
                /\ deleteCalls'[i].pc = "refetch")
          /\ \A o \in EntryRefetchOutcomes :
               deleteEntryRefetchDone(i, o) =>
                 (/\ entries' = EntriesFromTable(entriesTable')
                  /\ \E k \in 1..Len(entries') :
                       entries'[k].id = deleteCalls[i].id)
          /\ \A o \in RefetchOutcomes :
               deleteSummaryRefetchDone(i, o) =>
                 (/\ summaries' = ListFromTable(summariesTable')
                  /\ \E k \in 1..Len(summaries') :
                       summaries'[k] = deleteCalls[i].id)]_vars

(* ===================== delayed-restart variant claims =================== *)

\* C32 (stale restart timer): a restart timer armed by an 'ended' event while
\* the user was holding does not start the recognizer when stopRecording()
\* ran before the timer fired.
C32_StaleTimerDoesNotStart ==
  [][\A i \in 1..Len(restartTimers) :
       (restartTimer(i) /\ restartTimers[i]) => recState' # "active"]_vars

(* ========================= user-stats claims =========================== *)

\* C38 (streak update algebra): a successful update for the day directly
\* after the last_summary_date the handler found raises streak_count by
\* exactly one, one for the same date leaves it unchanged, and any other gap
\* or a missing row sets it to 1; starting from no row, a stored
\* streak_count is at least 1.
C38_StreakAlgebra ==
  [][/\ \A i \in 1..Len(statsCalls) :
          userStatsUpsertDone(i, "ok") =>
            LET e == statsCalls[i].existing
                d == statsCalls[i].for_date
            IN /\ statsRow'.last_summary_date = d
               /\ statsRow'.streak_count =
                    (CASE e = NoStats -> 1
                       [] e # NoStats /\ d = e.last_summary_date + 1 ->
                            e.streak_count + 1
                       [] e # NoStats /\ d = e.last_summary_date ->
                            e.streak_count
                       [] OTHER -> 1)
     /\ (statsRow' # NoStats => statsRow'.streak_count >= 1)]_vars

\* three consecutive days were posted: the streak stands at 3
C38_Witness ==
  /\ statsCalls = <<>>
  /\ statsRow = [last_summary_date |-> 2, streak_count |-> 3]

(* ====================== EntryInput widget claims ======================= *)

\* the instances whose last render returned the input UI
Showing == {i \in Instances : shown[i]}

\* C29 (single input widget): at any time at most one EntryInput instance
\* renders its input UI, and whenever at least one instance is mounted one
\* of them renders it.
C29_SingleInputWidget ==
  /\ Cardinality(Showing) <= 1
  /\ (\E i \in Instances : instPc[i] # "unmounted") => Showing # {}

\* C10 (commit ordering): a step of saveRatedSummary changes the draft only
\* when it follows the acknowledged insert (the row of the commit is in the
\* table), and then clears it; the steps that end a commit on a failed insert or a
\* missing user leave the table without a row for the draft, leave the
\* previewed draft and its timestamp as they were, and raise a notification.
C10_CommitOrdering ==
  [][/\ (savePc' # savePc /\ generatedSummary' # generatedSummary) =>
          /\ savePc \in {"insert", "refetch"}
          /\ savePc' = "stats"
          /\ generatedSummary' = NoDraft
          /\ RowsIn(summariesTable', saveText) # {}
     /\ (savePc \in {"auth", "insert"} /\ savePc' = "idle") =>
          /\ summariesTable' = summariesTable
          /\ RowsOf(saveText) = {}
          /\ generatedSummary' = generatedSummary
          /\ generatedAt' = generatedAt
          /\ ~isSavingRating'
          /\ toast' = (IF savePc = "auth"
                       THEN "Please sign in to save the reflection"
                       ELSE "Could not save reflection")]_vars

\* the insert failed: nothing is saved and the draft is still previewed
C10_Witness ==
  /\ toast = "Could not save reflection"
  /\ savePc = "idle"
  /\ generatedSummary # NoDraft
  /\ summariesTable = <<>>

====
